---- MODULE Spec2Model ----
(***************************************************************************)
(* AgriSathi (src/app.py): a Flask service that looks up mandi prices on   *)
(* data.gov.in, either directly from form fields or through an optional    *)
(* Gemini agent that owns the same lookup as a tool.                       *)
(*                                                                         *)
(* Python strings are sequences of one-character strings, so that lower(), *)
(* split(), replace(), strip() and title() are computed character by       *)
(* character.  Python dicts are functions on their keys.                   *)
(***************************************************************************)
EXTENDS Integers, Sequences, FiniteSets, TLC

VARIABLES
    env,                \* the process environment after dotenv.load_dotenv()
    pc,                 \* position of the module's top-level code / server
    fault,              \* exception that ended start-up ("" when none)
    console,            \* messages printed by the agent set-up
    DATA_GOV_API_KEY,   \* module global, line 13
    GOOGLE_API_KEY,     \* module global, line 14
    USE_AGENT,          \* module global, line 20
    agent_executor,     \* module global, lines 71-112
    app,                \* TRUE once Flask(__name__) exists, line 116
    request,            \* the request being answered
    response,           \* the response produced for it
    toolLog,            \* market_price invocations made for this request
    agentLog,           \* agent_executor.invoke calls made for this request
    locals,             \* query()'s locals `records` and `best_match` at exit
    fuzzy               \* similarity scores the fuzzy matcher gave this request

vars == <<env, pc, fault, console, DATA_GOV_API_KEY, GOOGLE_API_KEY, USE_AGENT,
          agent_executor, app, request, response, toolLog, agentLog, locals,
          fuzzy>>

startupVars == <<env, fault, console, DATA_GOV_API_KEY, GOOGLE_API_KEY,
                 USE_AGENT, agent_executor, app>>

requestVars == <<request, response, toolLog, agentLog, locals, fuzzy>>

----------------------------------------------------------------------------
(* Bounds of the model *)

MaxPieces == 4          \* pieces concatenated into a tool query
MaxRecords == 3         \* records in one upstream answer
MaxScore == 1           \* similarity scores range over 0..MaxScore
MaxAgentCalls == 1      \* tool calls the agent makes for one question

----------------------------------------------------------------------------
(* Python values *)

\* Python's None: no string has an element of more than one character.
NoneVal == <<"None">>

\* Truth value of a str-or-None, as `if x:` / `not x` / bool(x) test it.
Truthy(v) == v # NoneVal /\ v # <<>>

\* dict.get(key, default)
Get(d, key, default) == IF key \in DOMAIN d THEN d[key] ELSE default

UpperAlpha == <<"A","B","C","D","E","F","G","H","I","J","K","L","M",
                "N","O","P","Q","R","S","T","U","V","W","X","Y","Z">>
LowerAlpha == <<"a","b","c","d","e","f","g","h","i","j","k","l","m",
                "n","o","p","q","r","s","t","u","v","w","x","y","z">>

IsUpper(c) == \E i \in 1..26 : UpperAlpha[i] = c
IsLower(c) == \E i \in 1..26 : LowerAlpha[i] = c
IsCased(c) == IsUpper(c) \/ IsLower(c)

LowerChar(c) ==
    IF IsUpper(c) THEN LowerAlpha[CHOOSE i \in 1..26 : UpperAlpha[i] = c] ELSE c
UpperChar(c) ==
    IF IsLower(c) THEN UpperAlpha[CHOOSE i \in 1..26 : LowerAlpha[i] = c] ELSE c

\* str.lower()
lower(s) == [i \in 1..Len(s) |-> LowerChar(s[i])]

\* str.title(): a cased character is upper-cased when it follows an uncased
\* one (or starts the string) and lower-cased otherwise.
title(s) ==
    [i \in 1..Len(s) |->
        IF i > 1 /\ IsCased(s[i-1]) THEN LowerChar(s[i]) ELSE UpperChar(s[i])]

Whitespace == {" ", "\t", "\n", "\r"}

\* str.strip()
RECURSIVE lstrip(_)
lstrip(s) == IF s # <<>> /\ Head(s) \in Whitespace THEN lstrip(Tail(s)) ELSE s
RECURSIVE rstrip(_)
rstrip(s) ==
    IF s # <<>> /\ s[Len(s)] \in Whitespace
    THEN rstrip(SubSeq(s, 1, Len(s) - 1)) ELSE s
strip(s) == rstrip(lstrip(s))

\* str.find(sub) + 1: the first position where sub occurs in s, 0 when none.
find(s, sub) ==
    LET hits == {i \in 1..(Len(s) - Len(sub) + 1) :
                    SubSeq(s, i, i + Len(sub) - 1) = sub}
    IN IF hits = {} THEN 0 ELSE CHOOSE i \in hits : \A j \in hits : i <= j

\* `sub in s`
Contains(s, sub) == find(s, sub) # 0

\* str.split(sep): every non-overlapping occurrence, left to right, splits.
RECURSIVE split(_, _)
split(s, sep) ==
    LET i == find(s, sep)
    IN IF i = 0 THEN <<s>>
       ELSE <<SubSeq(s, 1, i - 1)>> \o split(SubSeq(s, i + Len(sep), Len(s)), sep)

\* str.replace(old, new): every non-overlapping occurrence is replaced.
RECURSIVE replace(_, _, _)
replace(s, old, new) ==
    LET i == find(s, old)
    IN IF i = 0 THEN s
       ELSE SubSeq(s, 1, i - 1) \o new
                \o replace(SubSeq(s, i + Len(old), Len(s)), old, new)

\* json.dumps / json.loads: the JSON text of a value and the value of a text.
dumps(v) == [json_text |-> v]
loads(t) == t.json_text

----------------------------------------------------------------------------
(* String literals of the program and of the inputs *)

SepIn == <<" ","i","n"," ">>
PriceOf == <<"p","r","i","c","e"," ","o","f"," ">>

Rice == <<"r","i","c","e">>
Goa == <<"g","o","a">>
Pune == <<"P","u","n","e">>
Mumbai == <<"M","u","m","b","a","i">>

ErrMsg(msg, details) == [msg |-> msg, details |-> details]

----------------------------------------------------------------------------
(* The upstream data API: what one GET can do *)

\* exception classes; the first two derive from requests.RequestException
RequestExceptions == {"ConnectionError", "HTTPError"}
OtherExceptions == {"ValueError", "AttributeError"}

Failure(e) == [kind |-> e, has_records |-> FALSE, records |-> <<>>]
Answer(has, recs) == [kind |-> "ok", has_records |-> has, records |-> recs]

R1 == [market |-> Pune, min_price |-> <<"1">>, max_price |-> <<"3">>,
       modal_price |-> <<"2">>, arrival_date |-> <<"d","1">>,
       commodity |-> Rice, state |-> Goa]
R2 == [market |-> Mumbai, min_price |-> <<"4">>, max_price |-> <<"6">>,
       modal_price |-> <<"5">>, arrival_date |-> <<"d","1">>,
       commodity |-> Rice, state |-> Goa]
R3 == [min_price |-> <<"7">>, max_price |-> <<"9">>,
       arrival_date |-> <<"d","2">>, commodity |-> Rice, state |-> Goa]
R4 == [market |-> Pune, min_price |-> <<"2">>, max_price |-> <<"8">>,
       modal_price |-> <<"5">>, arrival_date |-> <<"d","2">>,
       commodity |-> Rice, state |-> Goa]

RecordPool == {R1, R2, R3, R4}

SeqsUpTo(S, n) == UNION {[1..k -> S] : k \in 0..n}

\* every outcome of requests.get / raise_for_status / response.json / data.get
Upstream ==
    {Failure(e) : e \in RequestExceptions \cup OtherExceptions}
      \cup {Answer(FALSE, <<>>)}
      \cup {Answer(TRUE, rs) : rs \in SeqsUpTo(RecordPool, MaxRecords)}

\* the outcomes used where the records themselves do not matter
UpstreamSmall ==
    {Failure(e) : e \in RequestExceptions \cup OtherExceptions}
      \cup {Answer(FALSE, <<>>), Answer(TRUE, <<R1>>)}

----------------------------------------------------------------------------
(* market_price, lines 26-63 *)

\* FormatError under the key "message" instead of "error"
FormatErrorWrongKey ==
    [message |-> ErrMsg("Format error. Use 'price of [commodity] in [state]'", "")]

\* line 35
FormatError ==
    [error |-> ErrMsg("Format error. Use 'price of [commodity] in [state]'", "")]

\* ExceptResult with the catch-all clause listed first
ExceptResultCatchAll(e) == [error |-> ErrMsg("Unexpected error: ", e)]

\* lines 60-63: which except clause catches exception class e
ExceptResult(e) ==
    IF e \in RequestExceptions
    THEN [error |-> ErrMsg("API request failed: ", e)]
    ELSE [error |-> ErrMsg("Unexpected error: ", e)]

\* The tool on one query, given what the GET does: the returned JSON text and
\* the GETs issued (each by its params).
market_price(query_str, up) ==
    LET q == lower(query_str)
    IN IF ~Contains(q, SepIn)
       THEN [result |-> dumps(FormatError), gets |-> <<>>]
       ELSE
         LET parts == split(q, SepIn)
             commodity == strip(replace(parts[1], PriceOf, <<>>))
             state == strip(parts[2])
             params == [api_key |-> DATA_GOV_API_KEY,
                        format |-> "json",
                        filters_state |-> title(state),
                        filters_commodity |-> title(commodity),
                        limit |-> 100]
         IN [result |->
               IF up.kind = "ok"
               THEN dumps([crop |-> commodity,
                           state |-> state,
                           records |-> IF up.has_records THEN up.records
                                       ELSE <<>>])
               ELSE dumps(ExceptResult(up.kind)),
             gets |-> <<params>>]

ToolEntry(by, query_str, up) ==
    LET r == market_price(query_str, up)
    IN [by |-> by, query |-> query_str, up |-> up,
        result |-> r.result, gets |-> r.gets]

----------------------------------------------------------------------------
(* Start-up: the module's top-level code, in order *)

NoRequest == [route |-> "", kind |-> "", obj |-> <<>>]
NoResponse == [status |-> 0, body |-> [none |-> TRUE]]
NoLocals == [records |-> <<>>, best_match |-> NoneVal]

\* market names the upstream records carry ("" stands in for a missing one)
MarketNames == {Pune, Mumbai, <<>>}
ZeroScores == [n \in MarketNames |-> 0]

KeyA == <<"k","A">>
KeyG == <<"k","G">>

\* os.getenv(name): None when the variable is not set
EnvChoices ==
    [api_mandi : {NoneVal, <<>>, KeyA},
     GOOGLE_API_KEY : {NoneVal, <<>>, KeyG}]

Init ==
    /\ env \in EnvChoices
    /\ pc = "load_env"
    /\ fault = ""
    /\ console = {}
    /\ DATA_GOV_API_KEY = NoneVal
    /\ GOOGLE_API_KEY = NoneVal
    /\ USE_AGENT = FALSE
    /\ agent_executor = "None"
    /\ app = FALSE
    /\ request = NoRequest
    /\ response = NoResponse
    /\ toolLog = <<>>
    /\ agentLog = <<>>
    /\ locals = NoLocals
    /\ fuzzy = ZeroScores

\* lines 10-14
LoadEnv ==
    /\ pc = "load_env"
    /\ DATA_GOV_API_KEY' = env.api_mandi
    /\ GOOGLE_API_KEY' = env.GOOGLE_API_KEY
    /\ pc' = "check_key"
    /\ UNCHANGED <<env, fault, console, USE_AGENT, agent_executor, app>>
    /\ UNCHANGED requestVars

\* CheckKey testing `is None` in place of `not`
CheckKeyIsNone ==
    /\ pc = "check_key"
    /\ IF DATA_GOV_API_KEY = NoneVal
       THEN /\ fault' = "RuntimeError"
            /\ pc' = "aborted"
            /\ UNCHANGED USE_AGENT
       ELSE /\ USE_AGENT' = Truthy(GOOGLE_API_KEY)
            /\ pc' = "import_agent"
            /\ UNCHANGED fault
    /\ UNCHANGED <<env, console, DATA_GOV_API_KEY, GOOGLE_API_KEY,
                   agent_executor, app>>
    /\ UNCHANGED requestVars

\* lines 17-20
CheckKey ==
    /\ pc = "check_key"
    /\ IF ~Truthy(DATA_GOV_API_KEY)
       THEN /\ fault' = "RuntimeError"
            /\ pc' = "aborted"
            /\ UNCHANGED USE_AGENT
       ELSE /\ USE_AGENT' = Truthy(GOOGLE_API_KEY)
            /\ pc' = "import_agent"
            /\ UNCHANGED fault
    /\ UNCHANGED <<env, console, DATA_GOV_API_KEY, GOOGLE_API_KEY,
                   agent_executor, app>>
    /\ UNCHANGED requestVars

\* lines 67-71: the three agent imports run at top level, outside any try
ImportAgent ==
    /\ pc = "import_agent"
    /\ \E importable \in BOOLEAN :
         IF importable
         THEN /\ agent_executor' = "None"
              /\ pc' = "agent_setup"
              /\ UNCHANGED fault
         ELSE /\ fault' = "ImportError"
              /\ pc' = "aborted"
              /\ UNCHANGED agent_executor
    /\ UNCHANGED <<env, console, DATA_GOV_API_KEY, GOOGLE_API_KEY, USE_AGENT, app>>
    /\ UNCHANGED requestVars

\* lines 73-112
AgentSetup ==
    /\ pc = "agent_setup"
    /\ IF USE_AGENT
       THEN \E built \in BOOLEAN :
              IF built
              THEN /\ agent_executor' = "AgentExecutor"
                   /\ console' = console \cup {"Gemini Agent Enabled"}
              ELSE /\ agent_executor' = "None"
                   /\ console' = console \cup {"Agent startup failed"}
       ELSE UNCHANGED <<agent_executor, console>>
    /\ pc' = "create_app"
    /\ UNCHANGED <<env, fault, DATA_GOV_API_KEY, GOOGLE_API_KEY, USE_AGENT, app>>
    /\ UNCHANGED requestVars

\* lines 116-125
CreateApp ==
    /\ pc = "create_app"
    /\ app' = TRUE
    /\ pc' = "main"
    /\ UNCHANGED <<env, fault, console, DATA_GOV_API_KEY, GOOGLE_API_KEY,
                   USE_AGENT, agent_executor>>
    /\ UNCHANGED requestVars

\* lines 184-185
Main ==
    /\ pc = "main"
    /\ pc' = "serving"
    /\ UNCHANGED startupVars
    /\ UNCHANGED requestVars

Startup == LoadEnv \/ CheckKey \/ ImportAgent \/ AgentSetup \/ CreateApp \/ Main

\* The response leaves and the handler's frame is gone.
Respond ==
    /\ pc = "responded"
    /\ pc' = "serving"
    /\ request' = NoRequest
    /\ response' = NoResponse
    /\ toolLog' = <<>>
    /\ agentLog' = <<>>
    /\ locals' = NoLocals
    /\ fuzzy' = ZeroScores
    /\ UNCHANGED startupVars

----------------------------------------------------------------------------
(* POST /api/query, lines 124-181 *)

Absent == <<"absent">>      \* marks a key the JSON object does not have
AinB == <<"a"," ","i","n"," ","b">>
Pun == <<"p","u","n">>
Hi == <<"h","i">>

FieldChoices ==
    [commodity : {Absent, <<>>, Rice, AinB},
     state : {Absent, <<>>, Goa},
     market : {Absent, <<>>, Pun},
     question : {Absent, <<>>, Hi}]

ObjectOf(c) ==
    [k \in {f \in {"commodity", "state", "market", "question"} : c[f] # Absent}
        |-> c[k]]

ObjectRequest(c) == [route |-> "/api/query", kind |-> "object", obj |-> ObjectOf(c)]
OtherRequest(kind) == [route |-> "/api/query", kind |-> kind, obj |-> <<>>]

\* A request body: a JSON object, a JSON list, JSON null, or no JSON at all.
Requests ==
    {ObjectRequest(c) : c \in FieldChoices}
      \cup {OtherRequest(k) : k \in {"list", "null", "nonjson"}}

\* What request.get_json() does with a body that is not JSON: werkzeug raises
\* BadRequest (JSON content type, malformed body), raises UnsupportedMediaType
\* (Flask >= 2.1, other content type) or returns None (older Flask).
GetJsonOutcomes == {"BadRequest", "UnsupportedMediaType", "None"}

\* One run of agent_executor.invoke: the tool calls the agent decides to make
\* and whether the run ends in an exception.
AgentQueries == {PriceOf \o Rice \o SepIn \o Goa, Rice \o <<" ">> \o Goa}
AgentRuns ==
    [calls : SeqsUpTo([query : AgentQueries, up : UpstreamSmall], MaxAgentCalls),
     raised : BOOLEAN]
NoRun == [calls |-> <<>>, raised |-> FALSE]
AgentOutput == <<"o","k">>

\* Scores the fuzzy matcher gives the requested market against each name.
Scorers == [MarketNames -> 0..MaxScore]

Fault(status, name) == [status |-> status, body |-> [html |-> name]]
Json(status, body) == [status |-> status, body |-> body]

\* line 134
UsesAgent(question) == agent_executor # "None" /\ Truthy(question)

\* MissingFields with `and` in place of `or`
MissingFieldsBoth(commodity, state) == ~Truthy(commodity) /\ ~Truthy(state)

\* line 140
MissingFields(commodity, state) == ~Truthy(commodity) \/ ~Truthy(state)

\* extractOne resolving ties by the last occurrence
extractOneLast(choices, sc) ==
    IF choices = <<>>
    THEN [none |-> TRUE, choice |-> <<>>, score |-> 0]
    ELSE LET i == CHOOSE i \in 1..Len(choices) :
                    /\ \A j \in 1..Len(choices) : sc[choices[j]] <= sc[choices[i]]
                    /\ \A j \in (i + 1)..Len(choices) : sc[choices[j]] < sc[choices[i]]
         IN [none |-> FALSE, choice |-> choices[i], score |-> sc[choices[i]]]

\* fuzzywuzzy process.extractOne(query, choices): the first choice of highest
\* score with its score, None when there is no choice.
extractOne(choices, sc) ==
    IF choices = <<>>
    THEN [none |-> TRUE, choice |-> <<>>, score |-> 0]
    ELSE LET i == CHOOSE i \in 1..Len(choices) :
                    /\ \A j \in 1..Len(choices) : sc[choices[j]] <= sc[choices[i]]
                    /\ \A j \in 1..(i - 1) : sc[choices[j]] < sc[choices[i]]
         IN [none |-> FALSE, choice |-> choices[i], score |-> sc[choices[i]]]

\* line 156
FilterByMarket(records, best_match) ==
    SelectSeq(records, LAMBDA rec : Get(rec, "market", NoneVal) = best_match)

\* FormatRecord with the minimum and maximum prices exchanged
FormatRecordSwapped(rec) ==
    ("Market" :> Get(rec, "market", <<>>))
      @@ ("Min Price (₹)" :> Get(rec, "max_price", <<>>))
      @@ ("Max Price (₹)" :> Get(rec, "min_price", <<>>))
      @@ ("Modal Price (₹)" :> Get(rec, "modal_price", <<>>))
      @@ ("Date" :> Get(rec, "arrival_date", <<>>))
      @@ ("Commodity" :> Get(rec, "commodity", <<>>))
      @@ ("State" :> Get(rec, "state", <<>>))

\* lines 161-169
FormatRecord(rec) ==
    ("Market" :> Get(rec, "market", <<>>))
      @@ ("Min Price (₹)" :> Get(rec, "min_price", <<>>))
      @@ ("Max Price (₹)" :> Get(rec, "max_price", <<>>))
      @@ ("Modal Price (₹)" :> Get(rec, "modal_price", <<>>))
      @@ ("Date" :> Get(rec, "arrival_date", <<>>))
      @@ ("Commodity" :> Get(rec, "commodity", <<>>))
      @@ ("State" :> Get(rec, "state", <<>>))

Outcome(resp, tools, agents, recs, best) ==
    [response |-> resp, toolLog |-> tools, agentLog |-> agents,
     locals |-> [records |-> recs, best_match |-> best]]

\* lines 132-181: the try block, on the JSON object `data`
TryBlock(data, run, up, sc) ==
    LET commodity == Get(data, "commodity", NoneVal)
        state == Get(data, "state", NoneVal)
        market == Get(data, "market", NoneVal)
        question == Get(data, "question", NoneVal)
    IN
    IF UsesAgent(question)
    THEN LET tools == [i \in 1..Len(run.calls) |->
                          ToolEntry("agent", run.calls[i].query, run.calls[i].up)]
             agents == <<[input |-> question, raised |-> run.raised]>>
         IN IF run.raised
            THEN Outcome(Json(200, [error |-> ErrMsg("Unexpected error: ", "AgentError")]),
                         tools, agents, <<>>, NoneVal)
            ELSE Outcome(Json(200, [type |-> "agent",
                                    response |-> [input |-> question,
                                                  output |-> AgentOutput]]),
                         tools, agents, <<>>, NoneVal)
    ELSE IF MissingFields(commodity, state)
    THEN Outcome(Json(400, [error |-> ErrMsg("Commodity & State are required", "")]),
                 <<>>, <<>>, <<>>, NoneVal)
    ELSE
      LET user_input == PriceOf \o commodity \o SepIn \o state
          entry == ToolEntry("query", user_input, up)
          result == loads(entry.result)
      IN
      IF "error" \in DOMAIN result
      THEN Outcome(Json(200, [error |-> result.error]), <<entry>>, <<>>, <<>>, NoneVal)
      ELSE
        LET fetched == Get(result, "records", <<>>)
            market_names == [i \in 1..Len(fetched) |-> Get(fetched[i], "market", <<>>)]
            match == extractOne(market_names, sc)
        IN
        IF Truthy(market) /\ match.none
        THEN \* line 155: unpacking None raises TypeError, caught at line 180
             Outcome(Json(200, [error |-> ErrMsg("Unexpected error: ", "TypeError")]),
                     <<entry>>, <<>>, fetched, NoneVal)
        ELSE
          LET best_match == IF Truthy(market) THEN match.choice ELSE NoneVal
              records == IF Truthy(market)
                         THEN FilterByMarket(fetched, best_match)
                         ELSE fetched
          IN
          IF records = <<>>
          THEN Outcome(Json(404, [error |-> ErrMsg("No records found", "")]),
                       <<entry>>, <<>>, records, best_match)
          ELSE Outcome(Json(200,
                         [type |-> "table",
                          data |-> [crop |-> Get(result, "crop", <<>>),
                                    state |-> Get(result, "state", <<>>),
                                    records |-> [i \in 1..Len(records) |->
                                                    FormatRecord(records[i])]]]),
                       <<entry>>, <<>>, records, best_match)

\* lines 126-181: the whole handler.  Lines 126-130 run before the try.
query_handler(req, gj, run, up, sc) ==
    IF req.kind = "nonjson" /\ gj = "BadRequest"
    THEN Outcome(Fault(400, "BadRequest"), <<>>, <<>>, <<>>, NoneVal)
    ELSE IF req.kind = "nonjson" /\ gj = "UnsupportedMediaType"
    THEN Outcome(Fault(415, "UnsupportedMediaType"), <<>>, <<>>, <<>>, NoneVal)
    ELSE IF req.kind # "object"
    THEN \* line 127: data is None or a list, data.get raises AttributeError
         Outcome(Fault(500, "AttributeError"), <<>>, <<>>, <<>>, NoneVal)
    ELSE TryBlock(req.obj, run, up, sc)

\* The inputs a request can meet on its way through the handler.
GetJsonFor(req) == IF req.kind = "nonjson" THEN GetJsonOutcomes ELSE {"json"}

ReachesTry(req) == req.kind = "object"

AgentRunsFor(req) ==
    IF ReachesTry(req) /\ UsesAgent(Get(req.obj, "question", NoneVal))
    THEN AgentRuns ELSE {NoRun}

ReachesLookup(req) ==
    /\ ReachesTry(req)
    /\ ~UsesAgent(Get(req.obj, "question", NoneVal))
    /\ ~MissingFields(Get(req.obj, "commodity", NoneVal),
                      Get(req.obj, "state", NoneVal))

UpstreamFor(req) == IF ReachesLookup(req) THEN Upstream ELSE {Answer(FALSE, <<>>)}

ScorersFor(req, up) ==
    IF /\ ReachesLookup(req)
       /\ Truthy(Get(req.obj, "market", NoneVal))
       /\ up.kind = "ok" /\ up.has_records /\ up.records # <<>>
    THEN Scorers ELSE {ZeroScores}

query ==
    /\ pc = "serving"
    /\ \E req \in Requests :
       \E gj \in GetJsonFor(req), run \in AgentRunsFor(req), up \in UpstreamFor(req) :
       \E sc \in ScorersFor(req, up) :
         LET out == query_handler(req, gj, run, up, sc)
         IN /\ request' = req
            /\ response' = out.response
            /\ toolLog' = out.toolLog
            /\ agentLog' = out.agentLog
            /\ locals' = out.locals
            /\ fuzzy' = sc
    /\ pc' = "responded"
    /\ UNCHANGED startupVars

\* GET /, lines 119-121
index ==
    /\ pc = "serving"
    /\ request' = [route |-> "/", kind |-> "", obj |-> <<>>]
    /\ response' = Fault(200, "index.html")
    /\ pc' = "responded"
    /\ UNCHANGED <<toolLog, agentLog, locals, fuzzy>>
    /\ UNCHANGED startupVars

Next == Startup \/ query \/ index \/ Respond

Spec == Init /\ [][Next]_vars

----------------------------------------------------------------------------
(* The tool on arbitrary query strings, as the agent's tool protocol calls it *)

Pieces == {PriceOf, SepIn, <<" ","I","N"," ">>, Rice, Goa, <<" ">>}

RECURSIVE Flatten(_)
Flatten(ss) == IF ss = <<>> THEN <<>> ELSE Head(ss) \o Flatten(Tail(ss))

ToolInputs == {Flatten(ps) : ps \in SeqsUpTo(Pieces, MaxPieces)}

ToolInvoke ==
    /\ pc = "serving"
    /\ \E q \in ToolInputs, up \in UpstreamSmall :
         toolLog' = <<ToolEntry("agent", q, up)>>
    /\ request' = [route |-> "tool", kind |-> "", obj |-> <<>>]
    /\ pc' = "responded"
    /\ UNCHANGED <<response, agentLog, locals, fuzzy>>
    /\ UNCHANGED startupVars

NextTool == Startup \/ ToolInvoke \/ Respond

SpecTool == Init /\ [][NextTool]_vars

----------------------------------------------------------------------------
(* Properties *)

\* a POST /api/query has been answered
Answered == pc = "responded" /\ request.route = "/api/query"

Field(name) == Get(request.obj, name, NoneVal)
Empty(v) == v = NoneVal \/ v = <<>>

\* the handler made exactly one direct lookup and it returned no error
LookupSucceeded ==
    /\ Answered
    /\ Len(toolLog) = 1
    /\ toolLog[1].by = "query"
    /\ "error" \notin DOMAIN loads(toolLog[1].result)

Fetched == loads(toolLog[1].result).records

\* C1: every POST /api/query, whatever its body, is answered with status
\* 200, 400 or 404 and a JSON body that is either type-tagged or an error
\* payload without a type; no failure becomes a 500.
C1_AsClaimed ==
    Answered =>
        /\ response.status \in {200, 400, 404}
        /\ \/ "type" \in DOMAIN response.body
           \/ "error" \in DOMAIN response.body /\ "type" \notin DOMAIN response.body

\* C2: with the agent enabled and a non-empty question the handler invokes the
\* agent once, makes no direct lookup, ignores commodity/state and answers a
\* successful run with 200 {"type": "agent", "response": result}; otherwise
\* the agent is not invoked and a missing or empty commodity or state gives
\* 400 "Commodity & State are required" with no call to the data API.
C2_Dispatch ==
    (Answered /\ request.kind = "object") =>
        IF agent_executor = "AgentExecutor" /\ ~Empty(Field("question"))
        THEN /\ Len(agentLog) = 1
             /\ agentLog[1].input = Field("question")
             /\ \A i \in 1..Len(toolLog) : toolLog[i].by = "agent"
             /\ ~agentLog[1].raised =>
                   /\ response.status = 200
                   /\ DOMAIN response.body = {"type", "response"}
                   /\ response.body.type = "agent"
                   /\ response.body.response.output = AgentOutput
        ELSE /\ agentLog = <<>>
             /\ (Empty(Field("commodity")) \/ Empty(Field("state"))) =>
                   /\ response.status = 400
                   /\ response.body = [error |-> ErrMsg("Commodity & State are required", "")]
                   /\ toolLog = <<>>

C2_Witness ==
    /\ Answered
    /\ agent_executor = "AgentExecutor"
    /\ "commodity" \notin DOMAIN request.obj
    /\ "state" \notin DOMAIN request.obj
    /\ Len(agentLog) = 1
    /\ "type" \in DOMAIN response.body

\* C3: whenever the lookup succeeds and the records sequence is empty after
\* the optional market filtering, the answer is 404 "No records found", with
\* or without a market in the request.
C3_AsClaimed ==
    (LookupSucceeded /\ locals.records = <<>>) =>
        /\ response.status = 404
        /\ response.body = [error |-> ErrMsg("No records found", "")]

\* C4: without a non-empty api_mandi start-up ends in the configuration
\* error before the agent is built and before the server exists, so nothing
\* is ever handled or fetched; whenever a request is being handled the key
\* is non-empty and is the value read at start-up.
C4_FailFast ==
    /\ Empty(env.api_mandi) =>
          /\ pc \in {"load_env", "check_key", "aborted"}
          /\ pc = "aborted" => fault = "RuntimeError"
          /\ agent_executor = "None"
          /\ console = {}
          /\ app = FALSE
          /\ request = NoRequest
          /\ toolLog = <<>>
    /\ pc \in {"serving", "responded"} =>
          /\ ~Empty(DATA_GOV_API_KEY)
          /\ DATA_GOV_API_KEY = env.api_mandi
          /\ \A i \in 1..Len(toolLog) : \A g \in 1..Len(toolLog[i].gets) :
                toolLog[i].gets[g].api_key = env.api_mandi

C4_Witness ==
    /\ env.api_mandi = <<>>
    /\ pc = "aborted"
    /\ fault = "RuntimeError"

\* C5: a failure of the agent set-up, a missing dependency included, never
\* aborts the process: the only fatal start-up error is the missing data-API
\* key, and a failed construction leaves the agent disabled.
C5_AsClaimed ==
    /\ pc = "aborted" => fault = "RuntimeError"
    /\ "Agent startup failed" \in console => agent_executor = "None"

\* The query parsed as the claim C6 describes it: split at the first
\* separator only, one leading "price of " removed.
FirstSplit(q) ==
    LET p == find(q, SepIn)
        before == SubSeq(q, 1, p - 1)
        after == SubSeq(q, p + Len(SepIn), Len(q))
        unprefixed ==
            IF Len(before) >= Len(PriceOf) /\ SubSeq(before, 1, Len(PriceOf)) = PriceOf
            THEN SubSeq(before, Len(PriceOf) + 1, Len(before))
            ELSE before
    IN [commodity |-> strip(unprefixed), state |-> strip(after)]

\* C6: for a query containing " in ", commodity is the text before the first
\* " in " without one leading "price of ", state is everything after that
\* first " in ", both trimmed; crop/state return them and the filters are
\* their title-cased forms.
C6_AsClaimed ==
    \A i \in 1..Len(toolLog) :
        LET e == toolLog[i]
            q == lower(e.query)
        IN Contains(q, SepIn) =>
             /\ Len(e.gets) = 1
             /\ e.gets[1].filters_commodity = title(FirstSplit(q).commodity)
             /\ e.gets[1].filters_state = title(FirstSplit(q).state)
             /\ e.up.kind = "ok" =>
                   /\ loads(e.result).crop = FirstSplit(q).commodity
                   /\ loads(e.result).state = FirstSplit(q).state

\* C7: a query that has no " in " after lower-casing gets the JSON text of
\* the format error and causes no GET.
C7_FormatError ==
    \A i \in 1..Len(toolLog) :
        ~Contains(lower(toolLog[i].query), SepIn) =>
            /\ toolLog[i].result =
                  dumps([error |->
                     ErrMsg("Format error. Use 'price of [commodity] in [state]'", "")])
            /\ toolLog[i].gets = <<>>

C7_Witness ==
    /\ Len(toolLog) = 1
    /\ toolLog[1].query = Rice \o <<" ">> \o Goa
    /\ toolLog[1].gets = <<>>
    /\ "error" \in DOMAIN loads(toolLog[1].result)

NameOf(rec) == IF "market" \in DOMAIN rec THEN rec.market ELSE <<>>

DisplayKeys ==
    {"Market", "Min Price (₹)", "Max Price (₹)", "Modal Price (₹)",
     "Date", "Commodity", "State"}

RawKey(d) ==
    CASE d = "Market" -> "market"
      [] d = "Min Price (₹)" -> "min_price"
      [] d = "Max Price (₹)" -> "max_price"
      [] d = "Modal Price (₹)" -> "modal_price"
      [] d = "Date" -> "arrival_date"
      [] d = "Commodity" -> "commodity"
      [] d = "State" -> "state"

\* C10: when records remain, the answer is 200 {"type": "table", "data":
\* {crop, state, records}} with one entry per remaining record, in order,
\* each having exactly the seven display keys, valued from the raw record's
\* field or "" where the raw key is absent.
C10_Reshape ==
    (LookupSucceeded /\ locals.records # <<>>) =>
        /\ response.status = 200
        /\ DOMAIN response.body = {"type", "data"}
        /\ response.body.type = "table"
        /\ DOMAIN response.body.data = {"crop", "state", "records"}
        /\ Len(response.body.data.records) = Len(locals.records)
        /\ \A k \in 1..Len(locals.records) :
              LET shown == response.body.data.records[k]
                  raw == locals.records[k]
              IN /\ DOMAIN shown = DisplayKeys
                 /\ \A d \in DisplayKeys :
                       shown[d] = IF RawKey(d) \in DOMAIN raw
                                  THEN raw[RawKey(d)] ELSE <<>>

C10_Witness ==
    /\ LookupSucceeded
    /\ locals.records = <<R3, R1>>
    /\ response.status = 200
    /\ response.body.data.records[1]["Modal Price (₹)"] = <<>>
    /\ response.body.data.records[2]["Modal Price (₹)"] = <<"2">>

====
